---------------------------- MODULE Spec2Model ----------------------------
(***************************************************************************)
(* A model of koblelabs/machinery, v1:                                     *)
(*   - brokers/amqp.go: the AMQP broker's consume loop with its worker     *)
(*     pool, consumeOne, Publish and the delayed (TTL queue) publish;      *)
(*   - backends/async_result.go: the polling result handles.               *)
(* Several specifications share the variables; each one moves the part of  *)
(* the state its operations use and leaves the rest as Init set it.        *)
(***************************************************************************)
EXTENDS Integers, Sequences, FiniteSets, TLC

(***************************************************************************)
(* Bounds of the model.                                                    *)
(***************************************************************************)
\* Messages in the main queue when the consume loop is entered.
MaxQueue == 2
\* Task goroutines of one consume loop that may be alive at the same time.
MaxTasks == 3
\* The largest concurrency a consume loop is started with.
MaxConcurrency == 2

\* Calls of Publish by the producer.
MaxPublishes == 2
\* Ticks of the clock to a millisecond (the clock resolves parts of it).
TicksPerMs == 2
\* The latest time the clock reaches, in ticks.
MaxClock == 4
\* The furthest ETA a signature is published with, in ticks from now.
MaxEtaOffset == 3

\* The most results a task stores, and the most calls of Touch on a handle.
MaxResults == 2
MaxTouches == 2

\* "x-expires": delayMs + 3000
ExpiresSlackMs == 3000
\* The delivery tag of the one publish on a fresh channel in confirm mode.
DeliveryTag == 1

Workers == {"w1", "w2"}
Slots == 1..MaxTasks

\* The nil error.
Nil == "nil"

(***************************************************************************)
(* Signatures and their JSON encoding.  A body is a sequence of tokens:    *)
(* Marshal writes an opening brace, the fields and a closing brace;        *)
(* Unmarshal accepts exactly that shape and fails on anything else.        *)
(***************************************************************************)
Marshal(sig) == <<"{", sig.UUID, sig.Name, sig.RoutingKey, "}">>

Unmarshal(body) ==
    IF Len(body) = 5 /\ body[1] = "{" /\ body[5] = "}"
    THEN [ok |-> TRUE,
          sig |-> [UUID |-> body[2], Name |-> body[3], RoutingKey |-> body[4]]]
    ELSE [ok |-> FALSE, sig |-> [UUID |-> "", Name |-> "", RoutingKey |-> ""]]

\* The handlers each worker registered at startup (brokers/broker.go keeps
\* them in registeredTaskNames; the map is written once).
RegisteredTaskNames ==
    [w \in Workers |-> IF w = "w1" THEN {"add"} ELSE {"add", "mul"}]

IsTaskRegistered(w, name) == name \in RegisteredTaskNames[w]

\* A message of the main queue: its body and, for a message that came through
\* a per-task TTL queue, the delay it waited there (NoDelay for a direct
\* publish): when it entered and when its wait last started, the TTL and the ETA.
NoDelay == [since |-> 0, born |-> 0, ttl |-> 0, eta |-> 0]

Msg(body) == [body |-> body, delay |-> NoDelay]

Sig(uuid, name) == [UUID |-> uuid, Name |-> name, RoutingKey |-> "machinery_task"]

\* The bodies a consume loop is fed: empty, undecodable, a task registered on
\* w1 and w2, a task registered on w2 only.
Bodies ==
    { <<>>, <<"junk">>, Marshal(Sig("u1", "add")), Marshal(Sig("u2", "mul")) }

VARIABLES
    queue,          \* the main (default) queue: a sequence of messages
    conc,           \* conc[w]: the concurrency consume was called with
    loop,           \* loop[w]: the consume loop: pc, the delivery in hand, ret
    pool,           \* pool[w]: tokens in the pool channel
    filled,         \* filled[w]: tokens the initialising goroutine has sent
    wg,             \* wg[w]: the WaitGroup counter
    tasks,          \* tasks[w][s]: the task goroutines
    stopChan,       \* stopChan[w]: StopConsuming has signalled
    amqpCloseChan,  \* amqpCloseChan[w]: the transport reported a close error
    dropped,        \* bodies Nacked without requeue (discarded by the broker)
    processed,      \* the calls of Process made: worker and body
    clock,          \* the wall clock, in ticks (TicksPerMs ticks to a millisecond)
    pub,            \* the producer's current call of Publish
    tq,             \* tq[u]: the per-task TTL queue named u
    wire,           \* publishes sent on a channel, not yet handled by the broker
    confirms,       \* confirms[n]: the confirmation the broker sent for call n
    handed,         \* delayed messages a consume loop has received, with the time
    backend,        \* the backend the result handles were created with
    store,          \* store[u]: the backend's record of task u
    taskState,      \* taskState[u]: the state the handle of task u holds
    touched,        \* touched[u]: what the last call of Touch on the handle returned
    call            \* the client's current blocking call on a handle, chain or chord

pubVars == <<clock, pub, tq, wire, confirms, handed>>

resVars == <<backend, store, taskState, touched, call>>

vars == <<queue, conc, loop, pool, filled, wg, tasks, stopChan, amqpCloseChan,
          dropped, processed, pubVars, resVars>>

FreeTask == [pc |-> "free", d |-> Msg(<<>>), acks |-> <<>>, procs |-> 0, err |-> Nil]

RECURSIVE SeqsUpTo(_, _)
SeqsUpTo(S, n) ==
    IF n = 0 THEN { <<>> }
    ELSE LET shorter == SeqsUpTo(S, n - 1)
         IN shorter \cup { Append(q, x) : q \in { r \in shorter : Len(r) = n - 1 }, x \in S }


(***************************************************************************)
(* AMQPBroker.consume: the pool, the select loop and the task goroutines.  *)
(***************************************************************************)
LoopAt(w, pc) == loop[w].pc = pc

FreeSlots(w) == { s \in Slots : tasks[w][s].pc = "free" }

\* The slot a new goroutine takes: the lowest free one.
NewSlot(w) == CHOOSE s \in FreeSlots(w) : \A t \in FreeSlots(w) : s <= t

\* go func() { for i := 0; i < concurrency; i++ { pool <- struct{}{} } }()
FillPool(w) ==
    /\ filled[w] < conc[w]
    /\ filled' = [filled EXCEPT ![w] = @ + 1]
    /\ pool' = [pool EXCEPT ![w] = @ + 1]
    /\ UNCHANGED <<queue, conc, loop, wg, tasks, stopChan, amqpCloseChan, dropped, processed, pubVars, resVars>>

\* case amqpErr := <-amqpCloseChan: return amqpErr   (then the deferred wg.Wait)
SelectClose(w) ==
    /\ LoopAt(w, "select")
    /\ amqpCloseChan[w]
    /\ loop' = [loop EXCEPT ![w] = [@ EXCEPT !.pc = "wait", !.ret = "amqpErr"]]
    /\ amqpCloseChan' = [amqpCloseChan EXCEPT ![w] = FALSE]
    /\ UNCHANGED <<queue, conc, pool, filled, wg, tasks, stopChan, dropped, processed, pubVars, resVars>>

\* case err := <-errorsChan: return err.  errorsChan is unbuffered: the receive
\* and the send of a task blocked in errorsChan <- err are one step.
SelectError(w, s) ==
    /\ LoopAt(w, "select")
    /\ tasks[w][s].pc = "sendErr"
    /\ loop' = [loop EXCEPT ![w] = [@ EXCEPT !.pc = "wait", !.ret = tasks[w][s].err]]
    /\ tasks' = [tasks EXCEPT ![w][s].pc = "release"]
    /\ UNCHANGED <<queue, conc, pool, filled, wg, stopChan, amqpCloseChan, dropped, processed, pubVars, resVars>>

\* case d := <-deliveries: the broker hands over the next ready message.
SelectDelivery(w) ==
    /\ LoopAt(w, "select")
    /\ queue # << >>
    /\ FreeSlots(w) # {}
    /\ loop' = [loop EXCEPT ![w] = [@ EXCEPT !.pc = "dispatch", !.d = Head(queue)]]
    /\ queue' = Tail(queue)
    /\ handed' = IF Head(queue).delay = NoDelay THEN handed
                 ELSE handed \cup {[at |-> clock, delay |-> Head(queue).delay]}
    /\ UNCHANGED <<conc, pool, filled, wg, tasks, stopChan, amqpCloseChan, dropped, processed, resVars>>
    /\ UNCHANGED <<clock, pub, tq, wire, confirms>>

\* Dispatch with the pool receive left out: no token is waited for or taken.
Dispatch_NoToken(w) ==
    /\ LoopAt(w, "dispatch")
    /\ wg' = [wg EXCEPT ![w] = @ + 1]
    /\ tasks' = [tasks EXCEPT ![w][NewSlot(w)] =
                    [FreeTask EXCEPT !.pc = "consumeOne", !.d = loop[w].d]]
    /\ loop' = [loop EXCEPT ![w] = [@ EXCEPT !.pc = "select", !.d = Msg(<<>>)]]
    /\ UNCHANGED <<queue, conc, pool, filled, stopChan, amqpCloseChan, dropped, processed, pubVars, resVars>>

\* Dispatch with the test of concurrency left out: a token is always waited
\* for and taken.
Dispatch_AlwaysToken(w) ==
    /\ LoopAt(w, "dispatch")
    /\ pool[w] > 0
    /\ pool' = [pool EXCEPT ![w] = @ - 1]
    /\ wg' = [wg EXCEPT ![w] = @ + 1]
    /\ tasks' = [tasks EXCEPT ![w][NewSlot(w)] =
                    [FreeTask EXCEPT !.pc = "consumeOne", !.d = loop[w].d]]
    /\ loop' = [loop EXCEPT ![w] = [@ EXCEPT !.pc = "select", !.d = Msg(<<>>)]]
    /\ UNCHANGED <<queue, conc, filled, stopChan, amqpCloseChan, dropped, processed, pubVars, resVars>>

\* if concurrency > 0 { <-pool }; wg.Add(1); go func() {...}()
\* The receive from pool blocks, outside any select, until a token is there.
Dispatch(w) ==
    /\ LoopAt(w, "dispatch")
    /\ conc[w] > 0 => pool[w] > 0
    /\ pool' = [pool EXCEPT ![w] = IF conc[w] > 0 THEN @ - 1 ELSE @]
    /\ wg' = [wg EXCEPT ![w] = @ + 1]
    /\ tasks' = [tasks EXCEPT ![w][NewSlot(w)] =
                    [FreeTask EXCEPT !.pc = "consumeOne", !.d = loop[w].d]]
    /\ loop' = [loop EXCEPT ![w] = [@ EXCEPT !.pc = "select", !.d = Msg(<<>>)]]
    /\ UNCHANGED <<queue, conc, filled, stopChan, amqpCloseChan, dropped, processed, pubVars, resVars>>

\* case <-b.stopChan: return nil
SelectStop(w) ==
    /\ LoopAt(w, "select")
    /\ stopChan[w]
    /\ loop' = [loop EXCEPT ![w] = [@ EXCEPT !.pc = "wait", !.ret = Nil]]
    /\ UNCHANGED <<queue, conc, pool, filled, wg, tasks, stopChan, amqpCloseChan, dropped, processed, pubVars, resVars>>

\* WaitReturn without the deferred wg.Wait(): consume returns at once.
WaitReturn_NoWait(w) ==
    /\ LoopAt(w, "wait")
    /\ loop' = [loop EXCEPT ![w].pc = "done"]
    /\ UNCHANGED <<queue, conc, pool, filled, wg, tasks, stopChan, amqpCloseChan, dropped, processed, pubVars, resVars>>

\* defer wg.Wait(): consume returns once the counter is zero.
WaitReturn(w) ==
    /\ LoopAt(w, "wait")
    /\ wg[w] = 0
    /\ loop' = [loop EXCEPT ![w].pc = "done"]
    /\ UNCHANGED <<queue, conc, pool, filled, wg, tasks, stopChan, amqpCloseChan, dropped, processed, pubVars, resVars>>

(***************************************************************************)
(* AMQPBroker.consumeOne.  ConsumeOneAck is the acknowledgement consumeOne *)
(* issues for a body and what it does next.                                *)
(***************************************************************************)
\* ConsumeOneAck with the registration check left out: every decodable
\* message is Acked and processed.
ConsumeOneAck_NoRegistryCheck(w, body) ==
    IF Len(body) = 0
    THEN [op |-> "NackDrop", err |-> "EmptyMessage", process |-> FALSE]
    ELSE IF ~Unmarshal(body).ok
    THEN [op |-> "NackDrop", err |-> "DecodeError", process |-> FALSE]
    ELSE [op |-> "Ack", err |-> Nil, process |-> TRUE]

ConsumeOneAck(w, body) ==
    IF Len(body) = 0
    THEN [op |-> "NackDrop", err |-> "EmptyMessage", process |-> FALSE]
    ELSE IF ~Unmarshal(body).ok
    THEN [op |-> "NackDrop", err |-> "DecodeError", process |-> FALSE]
    ELSE IF ~IsTaskRegistered(w, Unmarshal(body).sig.Name)
    THEN [op |-> "NackRequeue", err |-> Nil, process |-> FALSE]
    ELSE [op |-> "Ack", err |-> Nil, process |-> TRUE]

\* Where a task goroutine goes when consumeOne has returned err.
AfterConsumeOne(err) == IF err # Nil THEN "sendErr" ELSE "release"

\* consumeOne up to its acknowledgement: d.Nack(false, false) and return,
\* d.Nack(false, true) and return nil, or d.Ack(false).
ConsumeOne(w, s) ==
    LET t == tasks[w][s]
        a == ConsumeOneAck(w, t.d.body)
    IN /\ t.pc = "consumeOne"
       /\ tasks' = [tasks EXCEPT ![w][s] =
                       [t EXCEPT !.acks = Append(@, a.op),
                                 !.err = a.err,
                                 !.pc = IF a.process THEN "acked"
                                        ELSE AfterConsumeOne(a.err)]]
       /\ queue' = IF a.op = "NackRequeue" THEN Append(queue, t.d) ELSE queue
       /\ dropped' = IF a.op = "NackDrop" THEN dropped \cup {t.d.body} ELSE dropped
       /\ UNCHANGED <<conc, loop, pool, filled, wg, stopChan, amqpCloseChan, processed, pubVars, resVars>>

\* return taskProcessor.Process(signature): the call
Process(w, s) ==
    /\ tasks[w][s].pc = "acked"
    /\ tasks' = [tasks EXCEPT ![w][s] = [@ EXCEPT !.pc = "processing", !.procs = @ + 1]]
    /\ processed' = processed \cup {[w |-> w, body |-> tasks[w][s].d.body]}
    /\ UNCHANGED <<queue, conc, loop, pool, filled, wg, stopChan, amqpCloseChan, dropped, pubVars, resVars>>

\* ... and its return, with nil or with the handler's error.
ProcessReturn(w, s, err) ==
    /\ tasks[w][s].pc = "processing"
    /\ tasks' = [tasks EXCEPT ![w][s] = [@ EXCEPT !.pc = AfterConsumeOne(err), !.err = err]]
    /\ UNCHANGED <<queue, conc, loop, pool, filled, wg, stopChan, amqpCloseChan, dropped, processed, pubVars, resVars>>

\* if concurrency > 0 { pool <- struct{}{} }
Release(w, s) ==
    /\ tasks[w][s].pc = "release"
    /\ pool' = [pool EXCEPT ![w] = IF conc[w] > 0 THEN @ + 1 ELSE @]
    /\ tasks' = [tasks EXCEPT ![w][s].pc = "wgDone"]
    /\ UNCHANGED <<queue, conc, loop, filled, wg, stopChan, amqpCloseChan, dropped, processed, pubVars, resVars>>

\* defer wg.Done(): the goroutine's last step.
Done(w, s) ==
    /\ tasks[w][s].pc = "wgDone"
    /\ wg' = [wg EXCEPT ![w] = @ - 1]
    /\ tasks' = [tasks EXCEPT ![w][s] = FreeTask]
    /\ UNCHANGED <<queue, conc, loop, pool, filled, stopChan, amqpCloseChan, dropped, processed, pubVars, resVars>>

\* AMQPBroker.StopConsuming, called while consume runs.
StopConsuming(w) ==
    /\ ~LoopAt(w, "done")
    /\ ~stopChan[w]
    /\ stopChan' = [stopChan EXCEPT ![w] = TRUE]
    /\ UNCHANGED <<queue, conc, loop, pool, filled, wg, tasks, amqpCloseChan, dropped, processed, pubVars, resVars>>

\* The transport closes the connection: an error arrives on amqpCloseChan.
TransportClose(w) ==
    /\ LoopAt(w, "select") \/ LoopAt(w, "dispatch")
    /\ ~amqpCloseChan[w]
    /\ amqpCloseChan' = [amqpCloseChan EXCEPT ![w] = TRUE]
    /\ UNCHANGED <<queue, conc, loop, pool, filled, wg, tasks, stopChan, dropped, processed, pubVars, resVars>>

Errors == {Nil, "ProcessError"}

IdleLoop == [pc |-> "select", d |-> Msg(<<>>), ret |-> Nil]

InitConsume(ws) ==
    /\ conc \in [Workers -> 0..MaxConcurrency]
    /\ \A w \in Workers \ ws : conc[w] = 0
    /\ loop = [w \in Workers |-> IdleLoop]
    /\ pool = [w \in Workers |-> 0]
    /\ filled = [w \in Workers |-> 0]
    /\ wg = [w \in Workers |-> 0]
    /\ tasks = [w \in Workers |-> [s \in Slots |-> FreeTask]]
    /\ stopChan = [w \in Workers |-> FALSE]
    /\ amqpCloseChan = [w \in Workers |-> FALSE]
    /\ dropped = {}
    /\ processed = {}

(***************************************************************************)
(* AMQPBroker.Publish and AMQPBroker.delay, with the transport they talk   *)
(* to: an exchange, the main queue, the per-task TTL queues whose expired  *)
(* messages are dead-lettered to the main queue, and publisher confirms.   *)
(***************************************************************************)
\* b.cnf.AMQP.Exchange, b.cnf.AMQP.BindingKey, b.cnf.DefaultQueue
Exchange == "machinery_exchange"
BindingKey == "machinery_task"
DefaultQueue == "machinery_tasks"

\* UUIDs of the signatures the producer publishes.
PubUUIDs == {"u1", "u2"}

\* The nil ETA; a set ETA is <<t>>, t in ticks.
NoETA == << >>

\* ETAs of the published signatures: nil, or the current time plus an offset
\* from -1 (past) to MaxEtaOffset ticks.
EtaOffsets == (-1)..MaxEtaOffset

PubSignatures(now) ==
    [UUID : PubUUIDs, Name : {"add"}, RoutingKey : {"", BindingKey},
     ETA : {NoETA} \cup { <<now + off>> : off \in EtaOffsets }]

\* Broker.AdjustRoutingKey: an empty routing key becomes the binding key.
AdjustRoutingKey(sig) ==
    IF sig.RoutingKey = "" THEN [sig EXCEPT !.RoutingKey = BindingKey] ELSE sig

\* signature.ETA.After(now)
After(eta, now) == eta[1] > now

\* int64(signature.ETA.Sub(now) / time.Millisecond): integer division truncates.
DelayMs(eta, now) == (eta[1] - now) \div TicksPerMs

\* The error values Publish returns; tag is the confirmation's delivery tag.
Ret(err) == [err |-> err, tag |-> 0]
FailedDelivery(tag) == [err |-> "Failed delivery of delivery tag", tag |-> tag]

IdlePub ==
    [pc |-> "idle", n |-> 0, sig |-> [UUID |-> "", Name |-> "", RoutingKey |-> "", ETA |-> NoETA],
     now |-> 0, delayMs |-> 0, ret |-> Ret(Nil), confirmed |-> "none",
     log |-> << >>, declared |-> {}]

NoQueue ==
    [declared |-> FALSE, ttl |-> 0, expires |-> 0, dlx |-> "", dlk |-> "",
     at |-> 0, now |-> 0, eta |-> 0, msgs |-> << >>]

\* Publish up to the choice of its path (lines 87-100): the routing key is
\* adjusted, and a set ETA after now sends the call to delay with the
\* truncated number of milliseconds.
PublishPath(sig, now) ==
    IF sig.ETA # NoETA /\ After(sig.ETA, now)
    THEN [pc |-> "delay", delayMs |-> DelayMs(sig.ETA, now)]
    ELSE [pc |-> "connect", delayMs |-> 0]

Publish(sig) ==
    /\ pub.pc \in {"idle", "returned"}
    /\ pub.n < MaxPublishes
    /\ pub' = [IdlePub EXCEPT !.pc = PublishPath(sig, clock).pc,
                              !.delayMs = PublishPath(sig, clock).delayMs,
                              !.n = pub.n + 1,
                              !.sig = AdjustRoutingKey(sig),
                              !.now = clock]
    /\ UNCHANGED <<queue, conc, loop, pool, filled, wg, tasks, stopChan, amqpCloseChan, dropped, processed, resVars>>
    /\ UNCHANGED <<clock, tq, wire, confirms, handed>>

\* b.Connect(... b.cnf.DefaultQueue ...): the exchange and the main queue are
\* declared; an error is returned as it is.
PubConnect(ok) ==
    /\ pub.pc = "connect"
    /\ pub' = IF ok THEN [pub EXCEPT !.pc = "publish", !.declared = @ \cup {DefaultQueue}]
              ELSE [pub EXCEPT !.pc = "returned", !.ret = Ret("ConnectError")]
    /\ UNCHANGED <<queue, conc, loop, pool, filled, wg, tasks, stopChan, amqpCloseChan, dropped, processed, resVars>>
    /\ UNCHANGED <<clock, tq, wire, confirms, handed>>

\* channel.Publish(exchange, signature.RoutingKey, ...)
PubPublish(ok) ==
    /\ pub.pc = "publish"
    /\ IF ok
       THEN /\ pub' = [pub EXCEPT !.pc = "confirm",
                                  !.log = Append(@, [exchange |-> Exchange,
                                                     key |-> pub.sig.RoutingKey])]
            /\ wire' = Append(wire, [n |-> pub.n, key |-> pub.sig.RoutingKey,
                                     body |-> Marshal(pub.sig)])
       ELSE /\ pub' = [pub EXCEPT !.pc = "returned", !.ret = Ret("PublishError")]
            /\ wire' = wire
    /\ UNCHANGED <<queue, conc, loop, pool, filled, wg, tasks, stopChan, amqpCloseChan, dropped, processed, resVars>>
    /\ UNCHANGED <<clock, tq, confirms, handed>>

\* confirmed := <-confirmsChan; nil on an Ack, else the error with the tag.
PubConfirmed ==
    /\ pub.pc = "confirm"
    /\ confirms[pub.n] # "none"
    /\ pub' = [pub EXCEPT !.pc = "returned",
                          !.confirmed = confirms[pub.n],
                          !.ret = IF confirms[pub.n] = "ack" THEN Ret(Nil)
                                  ELSE FailedDelivery(DeliveryTag)]
    /\ UNCHANGED <<queue, conc, loop, pool, filled, wg, tasks, stopChan, amqpCloseChan, dropped, processed, resVars>>
    /\ UNCHANGED <<clock, tq, wire, confirms, handed>>

\* delay: if delayMs <= 0 { return errors.New("Cannot delay task by 0ms") }
DelayCheck ==
    /\ pub.pc = "delay"
    /\ pub' = IF pub.delayMs <= 0
              THEN [pub EXCEPT !.pc = "returned", !.ret = Ret("Cannot delay task by 0ms")]
              ELSE [pub EXCEPT !.pc = "delayConnect"]
    /\ UNCHANGED <<queue, conc, loop, pool, filled, wg, tasks, stopChan, amqpCloseChan, dropped, processed, resVars>>
    /\ UNCHANGED <<clock, tq, wire, confirms, handed>>

\* DeclareQueueArgs with the TTL one millisecond short.
DeclareQueueArgs_ShortTTL(delayMs) ==
    [dlx |-> Exchange, dlk |-> BindingKey, ttl |-> delayMs - 1,
     expires |-> delayMs + ExpiresSlackMs]

\* The arguments delay declares the per-task queue with.
DeclareQueueArgs(delayMs) ==
    [dlx |-> Exchange, dlk |-> BindingKey, ttl |-> delayMs,
     expires |-> delayMs + ExpiresSlackMs]

\* b.Connect(... queueName = signature.UUID, declareQueueArgs ...): the queue
\* is declared again on every call, which zeroes its TTL timer (line 276): the
\* messages waiting in it wait the new TTL from now on.
DelayConnect(ok) ==
    /\ pub.pc = "delayConnect"
    /\ IF ok
       THEN LET a == DeclareQueueArgs(pub.delayMs)
                u == pub.sig.UUID
            IN /\ tq' = [tq EXCEPT ![u] =
                           [declared |-> TRUE, ttl |-> a.ttl, expires |-> a.expires,
                            dlx |-> a.dlx, dlk |-> a.dlk, at |-> clock,
                            now |-> pub.now, eta |-> pub.sig.ETA[1],
                            msgs |-> [i \in DOMAIN tq[u].msgs |->
                                         [tq[u].msgs[i] EXCEPT !.since = clock]]]]
               /\ pub' = [pub EXCEPT !.pc = "delayPublish", !.declared = @ \cup {u}]
       ELSE /\ pub' = [pub EXCEPT !.pc = "returned", !.ret = Ret("ConnectError")]
            /\ tq' = tq
    /\ UNCHANGED <<queue, conc, loop, pool, filled, wg, tasks, stopChan, amqpCloseChan, dropped, processed, resVars>>
    /\ UNCHANGED <<clock, wire, confirms, handed>>

\* channel.Publish(exchange, queueName, ...); return nil.  The confirmation
\* channel Connect returned is dropped (line 290): no confirm is awaited.
DelayPublish(ok) ==
    /\ pub.pc = "delayPublish"
    /\ IF ok
       THEN /\ pub' = [pub EXCEPT !.pc = "returned", !.ret = Ret(Nil),
                                  !.log = Append(@, [exchange |-> Exchange,
                                                     key |-> pub.sig.UUID])]
            /\ wire' = Append(wire, [n |-> pub.n, key |-> pub.sig.UUID,
                                     body |-> Marshal(pub.sig)])
       ELSE /\ pub' = [pub EXCEPT !.pc = "returned", !.ret = Ret("PublishError")]
            /\ wire' = wire
    /\ UNCHANGED <<queue, conc, loop, pool, filled, wg, tasks, stopChan, amqpCloseChan, dropped, processed, resVars>>
    /\ UNCHANGED <<clock, tq, confirms, handed>>

\* The broker handles a publish: it either takes the message, routes it by its
\* key (the main queue is bound by BindingKey, a TTL queue by its own name; a
\* key no queue is bound by loses the message) and confirms with an Ack, or
\* refuses it and confirms with a Nack.
BrokerConfirm(ack) ==
    /\ wire # << >>
    /\ LET m == Head(wire)
       IN /\ confirms' = [confirms EXCEPT ![m.n] = IF ack THEN "ack" ELSE "nack"]
          /\ queue' = IF ack /\ m.key = BindingKey
                      THEN Append(queue, Msg(m.body)) ELSE queue
          /\ tq' = IF ack /\ m.key \in PubUUIDs /\ tq[m.key].declared
                   THEN [tq EXCEPT ![m.key].msgs = Append(@, [body |-> m.body, since |-> clock, born |-> clock])]
                   ELSE tq
    /\ wire' = Tail(wire)
    /\ UNCHANGED <<conc, loop, pool, filled, wg, tasks, stopChan, amqpCloseChan, dropped, processed, resVars>>
    /\ UNCHANGED <<clock, pub, handed>>

\* A message that has waited its queue's x-message-ttl is dead-lettered: sent
\* to x-dead-letter-exchange with x-dead-letter-routing-key, that is, to the
\* main queue.
DeadLetter(u) ==
    /\ tq[u].declared
    /\ tq[u].msgs # << >>
    /\ clock >= Head(tq[u].msgs).since + tq[u].ttl * TicksPerMs
    /\ tq[u].dlx = Exchange /\ tq[u].dlk = BindingKey
    /\ queue' = Append(queue, [body |-> Head(tq[u].msgs).body,
                               delay |-> [since |-> Head(tq[u].msgs).since,
                                          born |-> Head(tq[u].msgs).born,
                                          ttl |-> tq[u].ttl, eta |-> tq[u].eta]])
    /\ tq' = [tq EXCEPT ![u].msgs = Tail(@)]
    /\ UNCHANGED <<conc, loop, pool, filled, wg, tasks, stopChan, amqpCloseChan, dropped, processed, resVars>>
    /\ UNCHANGED <<clock, pub, wire, confirms, handed>>

\* Time passes.
Tick ==
    /\ clock < MaxClock
    /\ clock' = clock + 1
    /\ UNCHANGED <<queue, conc, loop, pool, filled, wg, tasks, stopChan, amqpCloseChan, dropped, processed, resVars>>
    /\ UNCHANGED <<pub, tq, wire, confirms, handed>>

InitPublish ==
    /\ clock = 1
    /\ pub = IdlePub
    /\ tq = [u \in PubUUIDs |-> NoQueue]
    /\ wire = << >>
    /\ confirms = [n \in 1..(MaxPublishes + 1) |-> "none"]
    /\ handed = {}

(***************************************************************************)
(* AsyncResult: a handle on the state of one task in the result backend.   *)
(***************************************************************************)
TaskUUIDs == {"t1", "t2", "t3"}

\* tasks.TaskState and its predicates (package tasks).
NonTerminalStates == {"PENDING", "RECEIVED", "STARTED", "RETRY"}

NewTaskState == [TaskUUID |-> "", State |-> "", Results |-> << >>, Error |-> ""]

IsSuccess(ts) == ts.State = "SUCCESS"
IsFailure(ts) == ts.State = "FAILURE"
IsCompleted(ts) == IsSuccess(ts) \/ IsFailure(ts)

\* A Go error: nil, or an error with a text.
NoError == [isNil |-> TRUE, text |-> ""]
NewError(text) == [isNil |-> FALSE, text |-> text]

\* A []reflect.Value: the nil slice, or a slice (possibly empty) of values.
NilValues == [isNil |-> TRUE, vals |-> << >>]
Values(vs) == [isNil |-> FALSE, vals |-> vs]

\* tasks.ReflectValue: the stored value as a typed value, or an error for a
\* type name it does not know.
SupportedTypes == {"int64", "string"}

ReflectValue(type, value) ==
    IF type \in SupportedTypes
    THEN [err |-> NoError, value |-> [kind |-> type, v |-> value]]
    ELSE [err |-> NewError("unsupported type"), value |-> [kind |-> "", v |-> 0]]

\* The results a task may have stored: typed values, one of a type
\* ReflectValue does not know.
StoredResults ==
    { [Type |-> "int64", Value |-> 1], [Type |-> "int64", Value |-> 2],
      [Type |-> "struct", Value |-> 1] }

StoredErrors == {"", "boom"}

\* The record a backend holds for a task: none yet, a state, or purged.
NoRecord == [status |-> "none", ts |-> NewTaskState]

\* The states a worker writes after the state ts (SetStatePending, ...,
\* SetStateSuccess, SetStateFailure): SUCCESS and FAILURE are final.
NextTaskStates(u, rec) ==
    LET st(state) == [TaskUUID |-> u, State |-> state, Results |-> << >>, Error |-> ""]
    IN CASE rec.status = "none" -> { st("PENDING") }
         [] rec.status = "purged" -> {}
         [] rec.ts.State = "PENDING" -> { st("RECEIVED") }
         [] rec.ts.State = "RECEIVED" -> { st("STARTED") }
         [] rec.ts.State = "RETRY" -> { st("RECEIVED") }
         [] rec.ts.State = "STARTED" ->
               { st("RETRY") }
                 \cup { [st("SUCCESS") EXCEPT !.Results = r] :
                          r \in SeqsUpTo(StoredResults, MaxResults) }
                 \cup { [st("FAILURE") EXCEPT !.Error = e] : e \in StoredErrors }
         [] OTHER -> {}

\* A worker records the next state of task u in the backend.
SetState(u, ts) ==
    /\ backend # "nil"
    /\ ts \in NextTaskStates(u, store[u])
    /\ store' = [store EXCEPT ![u] = [status |-> "stored", ts |-> ts]]
    /\ UNCHANGED <<queue, conc, loop, pool, filled, wg, tasks, stopChan, amqpCloseChan, dropped, processed, pubVars>>
    /\ UNCHANGED <<backend, taskState, touched, call>>

\* A task is sent again under the UUID of one that has finished: the backend's
\* record of the UUID is overwritten with a PENDING state.
OverwriteState(u) ==
    /\ backend # "nil"
    /\ \/ store[u].status = "purged"
       \/ store[u].status = "stored" /\ IsCompleted(store[u].ts)
    /\ store' = [store EXCEPT ![u] =
                    [status |-> "stored",
                     ts |-> [TaskUUID |-> u, State |-> "PENDING",
                             Results |-> << >>, Error |-> ""]]]
    /\ UNCHANGED <<queue, conc, loop, pool, filled, wg, tasks, stopChan, amqpCloseChan, dropped, processed, pubVars>>
    /\ UNCHANGED <<backend, taskState, touched, call>>

\* StateAfterGet without the early return for a completed state.
StateAfterGet_AlwaysFetches(u, ok) ==
    IF ok /\ store[u].status = "stored" THEN store[u].ts
    ELSE taskState[u]

\* The handle's state after AsyncResult.GetState: a completed state is kept;
\* otherwise the backend is asked and its answer taken unless it is an error
\* (ok is whether the backend could be reached).
StateAfterGet(u, ok) ==
    IF IsCompleted(taskState[u]) THEN taskState[u]
    ELSE IF ok /\ store[u].status = "stored" THEN store[u].ts
    ELSE taskState[u]

\* The backend operations AsyncResult.GetState performs.
GetStateOps(u) == IF IsCompleted(taskState[u]) THEN << >> ELSE << "GetState" >>

GetState(u, ok) ==
    /\ backend # "nil"
    /\ taskState' = [taskState EXCEPT ![u] = StateAfterGet(u, ok)]
    /\ UNCHANGED <<queue, conc, loop, pool, filled, wg, tasks, stopChan, amqpCloseChan, dropped, processed, pubVars>>
    /\ UNCHANGED <<backend, store, touched, call>>

\* The loop of Touch over the stored results, from index i on, vs being the
\* values converted so far: the first conversion error ends it.
RECURSIVE ReflectResults(_, _, _)
ReflectResults(results, i, vs) ==
    IF i > Len(results) THEN [results |-> Values(vs), err |-> NoError]
    ELSE LET r == ReflectValue(results[i].Type, results[i].Value)
         IN IF ~r.err.isNil THEN [results |-> NilValues, err |-> r.err]
            ELSE ReflectResults(results, i + 1, Append(vs, r.value))

\* TouchOutcome that reports a failed task like a pending one.
TouchOutcome_FailureIgnored(ts) ==
    IF IsSuccess(ts) THEN ReflectResults(ts.Results, 1, << >>)
    ELSE [results |-> NilValues, err |-> NoError]

\* What Touch returns for the state the handle holds after the fetch.
TouchOutcome(ts) ==
    IF IsSuccess(ts) THEN ReflectResults(ts.Results, 1, << >>)
    ELSE IF IsFailure(ts) THEN [results |-> NilValues, err |-> NewError(ts.Error)]
    ELSE [results |-> NilValues, err |-> NoError]

NotTouched ==
    [n |-> 0, results |-> NilValues, err |-> NoError, ops |-> << >>,
     ts |-> NewTaskState, getErr |-> FALSE]

\* backend.GetState was called by AsyncResult.GetState and returned an error:
\* the backend could not be reached or holds no record of the task.
GetStateFailed(u, ok) ==
    /\ ~IsCompleted(taskState[u])
    /\ ~(ok /\ store[u].status = "stored")

\* One execution of AsyncResult.Touch on the handle of u, by whoever calls it.
\* touched[u] records what it returned and did; n counts the calls up to
\* MaxTouches.
TouchCall(u, ok) ==
    /\ IF backend = "nil"
       THEN /\ touched' = [touched EXCEPT ![u] =
                             [n |-> IF @.n < MaxTouches THEN @.n + 1 ELSE @.n,
                              results |-> NilValues,
                              err |-> NewError("Result backend not configured"),
                              ops |-> << >>, ts |-> taskState[u], getErr |-> FALSE]]
            /\ UNCHANGED <<store, taskState>>
       ELSE LET ts == StateAfterGet(u, ok)
                purge == backend = "amqp" /\ IsCompleted(ts)
                out == TouchOutcome(ts)
            IN /\ taskState' = [taskState EXCEPT ![u] = ts]
               /\ store' = IF purge /\ ts.TaskUUID \in TaskUUIDs
                           THEN [store EXCEPT ![ts.TaskUUID] =
                                    [status |-> "purged", ts |-> NewTaskState]]
                           ELSE store
               /\ touched' = [touched EXCEPT ![u] =
                                [n |-> IF @.n < MaxTouches THEN @.n + 1 ELSE @.n,
                                 results |-> out.results, err |-> out.err,
                                 ops |-> GetStateOps(u) \o
                                         (IF purge THEN << "PurgeState" >> ELSE << >>),
                                 ts |-> ts, getErr |-> GetStateFailed(u, ok)]]
    /\ UNCHANGED <<queue, conc, loop, pool, filled, wg, tasks, stopChan, amqpCloseChan, dropped, processed, pubVars>>
    /\ UNCHANGED backend

\* AsyncResult.Touch, called by the client itself.
Touch(u, ok) ==
    /\ touched[u].n < MaxTouches
    /\ TouchCall(u, ok)
    /\ UNCHANGED call

\* No call in progress.
IdleCall ==
    [op |-> "none", pc |-> "idle", u |-> "", i |-> 0, timer |-> "off",
     results |-> NilValues, err |-> NoError, polls |-> 0]

\* The call has called Touch once more (counted up to MaxTouches).
Polled(c) == [c EXCEPT !.polls = IF @ < MaxTouches THEN @ + 1 ELSE @]

\* result == nil && err == nil
Pending(out) == out.results.isNil /\ out.err.isNil

\* The call returns (results, err).
Return(c, results, err) ==
    [c EXCEPT !.pc = "returned", !.results = results, !.err = err]

(***************************************************************************)
(* AsyncResult.Get and AsyncResult.GetWithTimeout.                         *)
(***************************************************************************)
\* The client calls asyncResult.Get(sleepDuration) on the handle of u.
GetStart(u) ==
    /\ call.pc \in {"idle", "returned"}
    /\ call' = [IdleCall EXCEPT !.op = "Get", !.pc = "touch", !.u = u]
    /\ UNCHANGED <<queue, conc, loop, pool, filled, wg, tasks, stopChan, amqpCloseChan, dropped, processed, pubVars>>
    /\ UNCHANGED <<backend, store, taskState, touched>>

\* GetTouch returning whatever Touch returned, a pending outcome included.
GetTouch_ReturnsPending(u, ok) ==
    /\ call.op = "Get" /\ call.pc = "touch" /\ call.u = u
    /\ TouchCall(u, ok)
    /\ call' = Return(Polled(call), touched'[u].results, touched'[u].err)

\* result, err := asyncResult.Touch(); return unless both are nil.
GetTouch(u, ok) ==
    /\ call.op = "Get" /\ call.pc = "touch" /\ call.u = u
    /\ TouchCall(u, ok)
    /\ call' = IF Pending(touched'[u]) THEN [Polled(call) EXCEPT !.pc = "sleep"]
               ELSE Return(Polled(call), touched'[u].results, touched'[u].err)

\* <-time.After(sleepDuration)
GetSleep ==
    /\ call.op = "Get" /\ call.pc = "sleep"
    /\ call' = [call EXCEPT !.pc = "touch"]
    /\ UNCHANGED <<queue, conc, loop, pool, filled, wg, tasks, stopChan, amqpCloseChan, dropped, processed, pubVars>>
    /\ UNCHANGED <<backend, store, taskState, touched>>

\* The client calls asyncResult.GetWithTimeout(timeoutDuration, sleepDuration):
\* timeout := time.NewTimer(timeoutDuration)
GetWithTimeoutStart(u) ==
    /\ call.pc \in {"idle", "returned"}
    /\ call' = [IdleCall EXCEPT !.op = "GetWithTimeout", !.pc = "select", !.u = u,
                                !.timer = "running"]
    /\ UNCHANGED <<queue, conc, loop, pool, filled, wg, tasks, stopChan, amqpCloseChan, dropped, processed, pubVars>>
    /\ UNCHANGED <<backend, store, taskState, touched>>

\* The deadline passes while the call runs: the timer sends on timeout.C.
TimerFires ==
    /\ call.timer = "running"
    /\ call.pc # "returned"
    /\ call' = [call EXCEPT !.timer = "fired"]
    /\ UNCHANGED <<queue, conc, loop, pool, filled, wg, tasks, stopChan, amqpCloseChan, dropped, processed, pubVars>>
    /\ UNCHANGED <<backend, store, taskState, touched>>

\* GetWithTimeoutSelect taking the timeout case whether the timer fired or not.
GetWithTimeoutSelect_Early ==
    /\ call.op = "GetWithTimeout" /\ call.pc = "select"
    /\ call' = Return(call, NilValues, NewError("Timeout reached"))
    /\ UNCHANGED <<queue, conc, loop, pool, filled, wg, tasks, stopChan, amqpCloseChan, dropped, processed, pubVars>>
    /\ UNCHANGED <<backend, store, taskState, touched>>

\* select { case <-timeout.C: return nil, errors.New("Timeout reached")
\*          default: ... }
GetWithTimeoutSelect ==
    /\ call.op = "GetWithTimeout" /\ call.pc = "select"
    /\ call' = IF call.timer = "fired"
               THEN Return(call, NilValues, NewError("Timeout reached"))
               ELSE [call EXCEPT !.pc = "touch"]
    /\ UNCHANGED <<queue, conc, loop, pool, filled, wg, tasks, stopChan, amqpCloseChan, dropped, processed, pubVars>>
    /\ UNCHANGED <<backend, store, taskState, touched>>

GetWithTimeoutTouch(u, ok) ==
    /\ call.op = "GetWithTimeout" /\ call.pc = "touch" /\ call.u = u
    /\ TouchCall(u, ok)
    /\ call' = IF Pending(touched'[u]) THEN [Polled(call) EXCEPT !.pc = "sleep"]
               ELSE Return(Polled(call), touched'[u].results, touched'[u].err)

GetWithTimeoutSleep ==
    /\ call.op = "GetWithTimeout" /\ call.pc = "sleep"
    /\ call' = [call EXCEPT !.pc = "select"]
    /\ UNCHANGED <<queue, conc, loop, pool, filled, wg, tasks, stopChan, amqpCloseChan, dropped, processed, pubVars>>
    /\ UNCHANGED <<backend, store, taskState, touched>>

(***************************************************************************)
(* ChainAsyncResult: the handles of a chain of tasks, in chain order.      *)
(***************************************************************************)
\* chainAsyncResult.asyncResults
Chain == << "t1", "t2" >>

NotConfigured == NewError("Result backend not configured")

TimeoutError == NewError("Timeout reached")

\* The client calls chainAsyncResult.Get(sleepDuration).
ChainGetStart ==
    /\ call.pc \in {"idle", "returned"}
    /\ call' = IF backend = "nil"
               THEN Return([IdleCall EXCEPT !.op = "ChainGet"], NilValues, NotConfigured)
               ELSE [IdleCall EXCEPT !.op = "ChainGet", !.pc = "touch", !.i = 1]
    /\ UNCHANGED <<queue, conc, loop, pool, filled, wg, tasks, stopChan, amqpCloseChan, dropped, processed, pubVars>>
    /\ UNCHANGED <<backend, store, taskState, touched>>

\* ChainAfterMember without the check of err: the loop goes on after an error.
ChainAfterMember_IgnoresError(c, out) ==
    IF c.i = Len(Chain) THEN Return(c, out.results, out.err)
    ELSE [c EXCEPT !.i = @ + 1, !.results = out.results, !.err = out.err]

\* What the loop over the members does with what Get of member i returned:
\* return on an error, go on to the next member, or return after the last.
ChainAfterMember(c, out) ==
    IF ~out.err.isNil THEN Return(c, NilValues, out.err)
    ELSE IF c.i = Len(Chain) THEN Return(c, out.results, out.err)
    ELSE [c EXCEPT !.i = @ + 1, !.results = out.results, !.err = out.err]

\* results, err = asyncResult.Get(sleepDuration) for member i: one poll of
\* that Get, which sleeps if Touch returned (nil, nil) and returns otherwise.
ChainGetTouch(ok) ==
    /\ call.op = "ChainGet" /\ call.pc = "touch"
    /\ TouchCall(Chain[call.i], ok)
    /\ call' = IF Pending(touched'[Chain[call.i]])
               THEN [Polled(call) EXCEPT !.pc = "sleep"]
               ELSE ChainAfterMember(Polled(call), touched'[Chain[call.i]])

ChainGetSleep ==
    /\ call.op = "ChainGet" /\ call.pc = "sleep"
    /\ call' = [call EXCEPT !.pc = "touch"]
    /\ UNCHANGED <<queue, conc, loop, pool, filled, wg, tasks, stopChan, amqpCloseChan, dropped, processed, pubVars>>
    /\ UNCHANGED <<backend, store, taskState, touched>>

\* Task u of the chain has succeeded, as far as the backend or its handle
\* (after a purge) tells.
Succeeded(u) ==
    \/ store[u].status = "stored" /\ IsSuccess(store[u].ts)
    \/ store[u].status = "purged" /\ IsSuccess(taskState[u])

\* A worker records the next state of member i of the chain: a member is
\* published only when its predecessor has succeeded.
ChainSetState(i, ts) ==
    /\ i > 1 => Succeeded(Chain[i - 1])
    /\ SetState(Chain[i], ts)

\* The client calls chainAsyncResult.GetWithTimeout(timeoutDuration,
\* sleepDuration): results and err start as nil, the timer is started.
ChainGetWithTimeoutStart ==
    /\ call.pc \in {"idle", "returned"}
    /\ call' = IF backend = "nil"
               THEN Return([IdleCall EXCEPT !.op = "ChainGetWithTimeout"],
                           NilValues, NotConfigured)
               ELSE [IdleCall EXCEPT !.op = "ChainGetWithTimeout", !.pc = "select",
                                     !.timer = "running"]
    /\ UNCHANGED <<queue, conc, loop, pool, filled, wg, tasks, stopChan, amqpCloseChan, dropped, processed, pubVars>>
    /\ UNCHANGED <<backend, store, taskState, touched>>

\* select { case <-timeout.C: return nil, errors.New("Timeout reached")
\*          default: for _, asyncResult := range ... }
ChainGetWithTimeoutSelect ==
    /\ call.op = "ChainGetWithTimeout" /\ call.pc = "select"
    /\ call' = IF call.timer = "fired"
               THEN Return(call, NilValues, TimeoutError)
               ELSE [call EXCEPT !.pc = "touch", !.i = 1]
    /\ UNCHANGED <<queue, conc, loop, pool, filled, wg, tasks, stopChan, amqpCloseChan, dropped, processed, pubVars>>
    /\ UNCHANGED <<backend, store, taskState, touched>>

\* _, errcur := asyncResult.Touch(); if errcur != nil { return nil, err }
\* for member i: what is returned is err, the variable last assigned by the
\* Touch of the last member in an earlier iteration (call.err), not errcur.
ChainGetWithTimeoutTouch(ok) ==
    /\ call.op = "ChainGetWithTimeout" /\ call.pc = "touch"
    /\ TouchCall(Chain[call.i], ok)
    /\ call' = IF ~touched'[Chain[call.i]].err.isNil
               THEN Return(Polled(call), NilValues, call.err)
               ELSE IF call.i < Len(Chain) THEN [Polled(call) EXCEPT !.i = @ + 1]
               ELSE [Polled(call) EXCEPT !.pc = "last"]

\* results, err = lastResult.Touch(); return on an error or on results,
\* sleep otherwise.
ChainGetWithTimeoutLast(ok) ==
    /\ call.op = "ChainGetWithTimeout" /\ call.pc = "last"
    /\ TouchCall(Chain[Len(Chain)], ok)
    /\ LET out == touched'[Chain[Len(Chain)]]
       IN call' = IF ~out.err.isNil THEN Return(Polled(call), NilValues, out.err)
                  ELSE IF ~out.results.isNil THEN Return(Polled(call), out.results, out.err)
                  ELSE [Polled(call) EXCEPT !.pc = "sleep", !.results = out.results,
                                            !.err = out.err]

ChainGetWithTimeoutSleep ==
    /\ call.op = "ChainGetWithTimeout" /\ call.pc = "sleep"
    /\ call' = [call EXCEPT !.pc = "select"]
    /\ UNCHANGED <<queue, conc, loop, pool, filled, wg, tasks, stopChan, amqpCloseChan, dropped, processed, pubVars>>
    /\ UNCHANGED <<backend, store, taskState, touched>>

(***************************************************************************)
(* ChordAsyncResult: the handles of the group's tasks and of the callback. *)
(***************************************************************************)
\* chordAsyncResult.groupAsyncResults and chordAsyncResult.chordAsyncResult
Group == << "t1", "t2" >>
Callback == "t3"

\* The handles ChordAsyncResult.Get waits on, in its order.
ChordHandles == Append(Group, Callback)

\* The client calls chordAsyncResult.Get(sleepDuration).
ChordGetStart ==
    /\ call.pc \in {"idle", "returned"}
    /\ call' = IF backend = "nil"
               THEN Return([IdleCall EXCEPT !.op = "ChordGet"], NilValues, NotConfigured)
               ELSE [IdleCall EXCEPT !.op = "ChordGet", !.pc = "touch", !.i = 1]
    /\ UNCHANGED <<queue, conc, loop, pool, filled, wg, tasks, stopChan, amqpCloseChan, dropped, processed, pubVars>>
    /\ UNCHANGED <<backend, store, taskState, touched>>

\* ChordAfterHandle without the check of err: the loop goes on after an error.
ChordAfterHandle_IgnoresError(c, out) ==
    IF c.i <= Len(Group) THEN [c EXCEPT !.i = @ + 1]
    ELSE Return(c, out.results, out.err)

\* What Get does with what Get of handle i returned: for a group member,
\* return (nil, err) on an error and go on otherwise, dropping the results;
\* for the callback, return what it returned.
ChordAfterHandle(c, out) ==
    IF c.i <= Len(Group)
    THEN IF ~out.err.isNil THEN Return(c, NilValues, out.err)
         ELSE [c EXCEPT !.i = @ + 1]
    ELSE Return(c, out.results, out.err)

\* One poll of asyncResult.Get(sleepDuration) for handle i.
ChordGetTouch(ok) ==
    /\ call.op = "ChordGet" /\ call.pc = "touch"
    /\ TouchCall(ChordHandles[call.i], ok)
    /\ call' = IF Pending(touched'[ChordHandles[call.i]])
               THEN [Polled(call) EXCEPT !.pc = "sleep"]
               ELSE ChordAfterHandle(Polled(call), touched'[ChordHandles[call.i]])

ChordGetSleep ==
    /\ call.op = "ChordGet" /\ call.pc = "sleep"
    /\ call' = [call EXCEPT !.pc = "touch"]
    /\ UNCHANGED <<queue, conc, loop, pool, filled, wg, tasks, stopChan, amqpCloseChan, dropped, processed, pubVars>>
    /\ UNCHANGED <<backend, store, taskState, touched>>

\* The client calls chordAsyncResult.GetWithTimeout(timeoutDuration,
\* sleepDuration): results and err start as nil, the timer is started.
ChordGetWithTimeoutStart ==
    /\ call.pc \in {"idle", "returned"}
    /\ call' = IF backend = "nil"
               THEN Return([IdleCall EXCEPT !.op = "ChordGetWithTimeout"],
                           NilValues, NotConfigured)
               ELSE [IdleCall EXCEPT !.op = "ChordGetWithTimeout", !.pc = "select",
                                     !.timer = "running"]
    /\ UNCHANGED <<queue, conc, loop, pool, filled, wg, tasks, stopChan, amqpCloseChan, dropped, processed, pubVars>>
    /\ UNCHANGED <<backend, store, taskState, touched>>

ChordGetWithTimeoutSelect ==
    /\ call.op = "ChordGetWithTimeout" /\ call.pc = "select"
    /\ call' = IF call.timer = "fired"
               THEN Return(call, NilValues, TimeoutError)
               ELSE [call EXCEPT !.pc = "touch", !.i = 1]
    /\ UNCHANGED <<queue, conc, loop, pool, filled, wg, tasks, stopChan, amqpCloseChan, dropped, processed, pubVars>>
    /\ UNCHANGED <<backend, store, taskState, touched>>

\* _, errcur := asyncResult.Touch(); if errcur != nil { return nil, err }
\* for group member i: what is returned is err, the variable last assigned by
\* the Touch of the callback in an earlier iteration (call.err), not errcur.
ChordGetWithTimeoutTouch(ok) ==
    /\ call.op = "ChordGetWithTimeout" /\ call.pc = "touch"
    /\ TouchCall(Group[call.i], ok)
    /\ call' = IF ~touched'[Group[call.i]].err.isNil
               THEN Return(Polled(call), NilValues, call.err)
               ELSE IF call.i < Len(Group) THEN [Polled(call) EXCEPT !.i = @ + 1]
               ELSE [Polled(call) EXCEPT !.pc = "last"]

\* results, err = chordAsyncResult.chordAsyncResult.Touch()
\* if err != nil { return nil, nil }; if results != nil { return results, err }
ChordGetWithTimeoutLast(ok) ==
    /\ call.op = "ChordGetWithTimeout" /\ call.pc = "last"
    /\ TouchCall(Callback, ok)
    /\ LET out == touched'[Callback]
       IN call' = IF ~out.err.isNil THEN Return(Polled(call), NilValues, NoError)
                  ELSE IF ~out.results.isNil THEN Return(Polled(call), out.results, out.err)
                  ELSE [Polled(call) EXCEPT !.pc = "sleep", !.results = out.results,
                                            !.err = out.err]

ChordGetWithTimeoutSleep ==
    /\ call.op = "ChordGetWithTimeout" /\ call.pc = "sleep"
    /\ call' = [call EXCEPT !.pc = "select"]
    /\ UNCHANGED <<queue, conc, loop, pool, filled, wg, tasks, stopChan, amqpCloseChan, dropped, processed, pubVars>>
    /\ UNCHANGED <<backend, store, taskState, touched>>

\* A worker records the next state of a task of the chord: the callback is
\* published only when every task of the group has succeeded.
ChordSetState(u, ts) ==
    /\ u = Callback => \A i \in DOMAIN Group : Succeeded(Group[i])
    /\ SetState(u, ts)

\* No result handle in use.
InitNoResults ==
    /\ backend = "nil"
    /\ store = [u \in TaskUUIDs |-> NoRecord]
    /\ taskState = [u \in TaskUUIDs |-> NewTaskState]
    /\ touched = [u \in TaskUUIDs |-> NotTouched]
    /\ call = IdleCall

\* NewAsyncResult(signature, backend) for every task, with any backend.
InitResults ==
    /\ backend \in {"nil", "amqp", "store"}
    /\ store = [u \in TaskUUIDs |-> NoRecord]
    /\ taskState = [u \in TaskUUIDs |-> NewTaskState]
    /\ touched = [u \in TaskUUIDs |-> NotTouched]
    /\ call = IdleCall

(***************************************************************************)
(* Spec: one worker, w1, consuming a queue of up to MaxQueue messages.     *)
(***************************************************************************)
Init ==
    /\ queue \in { [i \in DOMAIN q |-> Msg(q[i])] : q \in SeqsUpTo(Bodies, MaxQueue) }
    /\ InitConsume({"w1"})
    /\ InitPublish
    /\ InitNoResults

Next ==
    \/ FillPool("w1")
    \/ SelectClose("w1")
    \/ \E s \in Slots : SelectError("w1", s)
    \/ SelectDelivery("w1")
    \/ Dispatch("w1")
    \/ SelectStop("w1")
    \/ WaitReturn("w1")
    \/ \E s \in Slots : ConsumeOne("w1", s)
    \/ \E s \in Slots : Process("w1", s)
    \/ \E s \in Slots, err \in Errors : ProcessReturn("w1", s, err)
    \/ \E s \in Slots : Release("w1", s)
    \/ \E s \in Slots : Done("w1", s)
    \/ StopConsuming("w1")
    \/ TransportClose("w1")

Spec == Init /\ [][Next]_vars


(***************************************************************************)
(* SpecPublish: a producer calling Publish with any ETA, the broker        *)
(* confirming or refusing each publish, and the clock.                     *)
(***************************************************************************)
InitP ==
    /\ queue = << >>
    /\ InitConsume({})
    /\ InitPublish
    /\ InitNoResults

NextP ==
    \/ \E sig \in PubSignatures(clock) : Publish(sig)
    \/ \E ok \in BOOLEAN : PubConnect(ok)
    \/ \E ok \in BOOLEAN : PubPublish(ok)
    \/ PubConfirmed
    \/ DelayCheck
    \/ \E ok \in BOOLEAN : DelayConnect(ok)
    \/ \E ok \in BOOLEAN : DelayPublish(ok)
    \/ \E ack \in BOOLEAN : BrokerConfirm(ack)
    \/ Tick

SpecPublish == InitP /\ [][NextP]_vars

(***************************************************************************)
(* SpecDelay: a producer publishing signatures whose ETA is in the future, *)
(* the TTL queues with their dead-lettering, the clock, and worker w1      *)
(* (concurrency 0) receiving from the main queue up to consumeOne.  The    *)
(* broker takes every publish here; refused and failed publishes are part  *)
(* of SpecPublish.                                                         *)
(***************************************************************************)
FutureSignatures(now) == { sig \in PubSignatures(now) : sig.ETA # NoETA /\ After(sig.ETA, now) }

NextD ==
    \/ \E sig \in FutureSignatures(clock) : Publish(sig)
    \/ DelayCheck
    \/ \E ok \in BOOLEAN : DelayConnect(ok)
    \/ DelayPublish(TRUE)
    \/ BrokerConfirm(TRUE)
    \/ \E u \in PubUUIDs : DeadLetter(u)
    \/ Tick
    \/ SelectDelivery("w1")
    \/ Dispatch("w1")
    \/ \E s \in Slots : ConsumeOne("w1", s)

SpecDelay == InitP /\ [][NextD]_vars

(***************************************************************************)
(* SpecWorkers: w1 (unlimited concurrency) and w2 (any concurrency)        *)
(* consume the same queue.  "mul" has a handler on w2 only, "nop" on       *)
(* neither.                                                                *)
(***************************************************************************)
WorkerBodies ==
    { <<>>, Marshal(Sig("u2", "mul")), Marshal(Sig("u3", "nop")) }

InitW ==
    /\ queue \in { [i \in DOMAIN q |-> Msg(q[i])] : q \in SeqsUpTo(WorkerBodies, MaxQueue) }
    /\ InitConsume(Workers)
    /\ conc["w1"] = 0
    /\ InitPublish
    /\ InitNoResults

NextW ==
    \E w \in Workers :
        \/ FillPool(w)
        \/ \E s \in Slots : SelectError(w, s)
        \/ SelectDelivery(w)
        \/ Dispatch(w)
        \/ WaitReturn(w)
        \/ \E s \in Slots : ConsumeOne(w, s)
        \/ \E s \in Slots : Process(w, s)
        \/ \E s \in Slots, err \in Errors : ProcessReturn(w, s, err)
        \/ \E s \in Slots : Release(w, s)
        \/ \E s \in Slots : Done(w, s)

SpecWorkers == InitW /\ [][NextW]_vars

(***************************************************************************)
(* SpecResult: the handle of task t1 is touched while a worker moves the   *)
(* task through its states in the backend.                                 *)
(***************************************************************************)
InitR ==
    /\ queue = << >>
    /\ InitConsume({})
    /\ InitPublish
    /\ InitResults

NextR ==
    \/ \E ts \in NextTaskStates("t1", store["t1"]) : SetState("t1", ts)
    \/ \E ok \in BOOLEAN : GetState("t1", ok)
    \/ \E ok \in BOOLEAN : Touch("t1", ok)

SpecResult == InitR /\ [][NextR]_vars

(***************************************************************************)
(* SpecGet: the client calls GetState, Touch, Get and GetWithTimeout on    *)
(* the handle of t1 while a worker moves the task through its states.      *)
(***************************************************************************)
NextG ==
    \/ \E ts \in NextTaskStates("t1", store["t1"]) : SetState("t1", ts)
    \/ \E ok \in BOOLEAN : GetState("t1", ok) /\ call.pc \in {"idle", "returned"}
    \/ \E ok \in BOOLEAN : Touch("t1", ok) /\ call.pc \in {"idle", "returned"}
    \/ GetStart("t1")
    \/ \E ok \in BOOLEAN : GetTouch("t1", ok)
    \/ GetSleep
    \/ GetWithTimeoutStart("t1")
    \/ TimerFires
    \/ GetWithTimeoutSelect
    \/ \E ok \in BOOLEAN : GetWithTimeoutTouch("t1", ok)
    \/ GetWithTimeoutSleep

SpecGet == InitR /\ [][NextG]_vars

\* The states a worker writes for a task that returns at most one value.
SingleResultStates(u) ==
    { ts \in NextTaskStates(u, store[u]) : Len(ts.Results) <= 1 }

(***************************************************************************)
(* SpecTerminal: the calls of SpecGet on a task returning at most one      *)
(* value, with a backend whose record of t1 is overwritten after the task  *)
(* has finished.                                                           *)
(***************************************************************************)
NextT ==
    \/ \E ts \in SingleResultStates("t1") : SetState("t1", ts)
    \/ OverwriteState("t1")
    \/ \E ok \in BOOLEAN : GetState("t1", ok) /\ call.pc \in {"idle", "returned"}
    \/ \E ok \in BOOLEAN : Touch("t1", ok) /\ call.pc \in {"idle", "returned"}
    \/ GetStart("t1")
    \/ \E ok \in BOOLEAN : GetTouch("t1", ok)
    \/ GetSleep
    \/ GetWithTimeoutStart("t1")
    \/ TimerFires
    \/ GetWithTimeoutSelect
    \/ \E ok \in BOOLEAN : GetWithTimeoutTouch("t1", ok)
    \/ GetWithTimeoutSleep

SpecTerminal == InitR /\ [][NextT]_vars

(***************************************************************************)
(* SpecChain: the client calls Get on the chain t1, t2 while workers run   *)
(* the chain.                                                              *)
(***************************************************************************)
NextC ==
    \/ \E i \in DOMAIN Chain :
          \E ts \in NextTaskStates(Chain[i], store[Chain[i]]) : ChainSetState(i, ts)
    \/ ChainGetStart
    \/ \E ok \in BOOLEAN : ChainGetTouch(ok)
    \/ ChainGetSleep

SpecChain == InitR /\ [][NextC]_vars

(***************************************************************************)
(* SpecChainTimeout: the client calls GetWithTimeout on the chain t1, t2   *)
(* while workers run the chain, each task returning at most one value.     *)
(***************************************************************************)
NextCT ==
    \/ \E i \in DOMAIN Chain :
          \E ts \in SingleResultStates(Chain[i]) : ChainSetState(i, ts)
    \/ ChainGetWithTimeoutStart
    \/ TimerFires
    \/ ChainGetWithTimeoutSelect
    \/ \E ok \in BOOLEAN : ChainGetWithTimeoutTouch(ok)
    \/ \E ok \in BOOLEAN : ChainGetWithTimeoutLast(ok)
    \/ ChainGetWithTimeoutSleep

SpecChainTimeout == InitR /\ [][NextCT]_vars

(***************************************************************************)
(* SpecChord: the client calls Get on the chord of the group t1, t2 with   *)
(* callback t3 while workers run the chord, each task returning at most    *)
(* one value.                                                              *)
(***************************************************************************)
NextH ==
    \/ \E u \in TaskUUIDs : \E ts \in SingleResultStates(u) : ChordSetState(u, ts)
    \/ ChordGetStart
    \/ \E ok \in BOOLEAN : ChordGetTouch(ok)
    \/ ChordGetSleep

SpecChord == InitR /\ [][NextH]_vars

(***************************************************************************)
(* SpecChordTimeout: the client calls GetWithTimeout on the chord of the   *)
(* group t1, t2 with callback t3 while workers run the chord, each task    *)
(* returning at most one value.  Every read of the backend succeeds here:  *)
(* a failing read is the subject of SpecGet.                               *)
(***************************************************************************)
NextHT ==
    \/ \E u \in TaskUUIDs : \E ts \in SingleResultStates(u) : ChordSetState(u, ts)
    \/ ChordGetWithTimeoutStart
    \/ TimerFires
    \/ ChordGetWithTimeoutSelect
    \/ ChordGetWithTimeoutTouch(TRUE)
    \/ ChordGetWithTimeoutLast(TRUE)
    \/ ChordGetWithTimeoutSleep

SpecChordTimeout == InitR /\ [][NextHT]_vars

(***************************************************************************)
(* Properties of consume and consumeOne.                                   *)
(***************************************************************************)
\* Tasks inside consumeOne (Process included).
InFlight(w) ==
    { s \in Slots : tasks[w][s].pc \in {"consumeOne", "acked", "processing"} }

\* Tasks that took a token and have not given it back.
TokenHolders(w) ==
    { s \in Slots : tasks[w][s].pc \in {"consumeOne", "acked", "processing",
                                          "sendErr", "release"} }

\* Tasks whose consumeOne has returned.
Returned(w) == { s \in Slots : tasks[w][s].pc \in {"sendErr", "release", "wgDone"} }

\* C1: with concurrency c >= 1, at most c consumeOne invocations are in flight,
\* and the tokens in the pool plus the tokens held by tasks never exceed c.
C1_ConcurrencyBound ==
    \A w \in Workers :
        conc[w] >= 1 =>
            /\ Cardinality(InFlight(w)) <= conc[w]
            /\ pool[w] >= 0
            /\ pool[w] + Cardinality(TokenHolders(w)) <= conc[w]

\* The bound is reached: concurrency 1, one task inside Process, the pool empty
\* and the loop blocked on the pool with the next delivery in hand.
C1_Witness ==
    /\ conc["w1"] = 1
    /\ \E s \in Slots : tasks["w1"][s].pc = "processing"
    /\ pool["w1"] = 0
    /\ LoopAt("w1", "dispatch")

\* C2: when consume has returned, every task goroutine it dispatched has
\* finished (its slot is free again and the WaitGroup counter is zero).
C2_ReturnsAfterTasks ==
    \A w \in Workers :
        LoopAt(w, "done") => /\ \A s \in Slots : tasks[w][s].pc = "free"
                             /\ wg[w] = 0

\* consume has returned a task's error after a second message was requeued by a
\* task: at least two tasks were dispatched and both are finished.
C2_Witness ==
    /\ LoopAt("w1", "done")
    /\ loop["w1"].ret = "ProcessError"
    /\ Len(queue) = 1
    /\ dropped = {}

\* A step of the consume loop of w or of one of its goroutines is possible.
CanStep(w) ==
    \/ ENABLED FillPool(w)
    \/ ENABLED SelectClose(w)
    \/ \E s \in Slots : ENABLED SelectError(w, s)
    \/ ENABLED SelectDelivery(w)
    \/ ENABLED Dispatch(w)
    \/ ENABLED SelectStop(w)
    \/ ENABLED WaitReturn(w)
    \/ \E s \in Slots : \/ ENABLED ConsumeOne(w, s)
                        \/ ENABLED Process(w, s)
                        \/ ENABLED ProcessReturn(w, s, Nil)
                        \/ ENABLED Release(w, s)
                        \/ ENABLED Done(w, s)

\* C3 (as claimed): once StopConsuming was called, consume returns if every
\* Process call terminates.  Stated so that a finite run refutes it: while
\* consume has not returned after a stop, the loop or one of its goroutines can
\* still take a step (no Process call is pending in a state that refutes it).
C3_StopReturns ==
    \A w \in Workers :
        (stopChan[w] /\ ~LoopAt(w, "done")) => CanStep(w)

\* C4 (as claimed): once a task's consumeOne has returned a non-nil error,
\* consume returns, and returns the first error a task reported.  While a task
\* holds an unreported error and consume has not returned, some step of the loop
\* or of a goroutine is still possible; and a returned consume that took a
\* task's error returns an error of a task.
C4_ErrorReturns ==
    \A w \in Workers :
        /\ ((\E s \in Slots : tasks[w][s].pc = "sendErr") /\ ~LoopAt(w, "done"))
              => CanStep(w)
        /\ LoopAt(w, "done") => \A s \in Slots : tasks[w][s].pc # "sendErr"

\* The acknowledgement the claim names for a body on worker w.
C5_Expected(w, body) ==
    CASE body = <<>> -> "NackDrop"
      [] Len(body) # 5 -> "NackDrop"
      [] body[3] \notin RegisteredTaskNames[w] -> "NackRequeue"
      [] OTHER -> "Ack"

\* C5: consumeOne issues exactly one acknowledgement per delivery, of the kind
\* the body calls for; Process is invoked only for an Acked delivery, once, and
\* after the Ack.
C5_OneAck ==
    \A w \in Workers : \A s \in Slots :
        LET t == tasks[w][s]
        IN /\ Len(t.acks) <= 1
           /\ t.procs <= 1
           /\ t.procs = 1 => t.acks = <<"Ack">>
           /\ t.pc = "consumeOne" => (t.acks = <<>> /\ t.procs = 0)
           /\ t.pc = "acked" => (t.acks = <<"Ack">> /\ t.procs = 0)
           /\ t.pc = "processing" => t.procs = 1
           /\ s \in Returned(w) =>
                 /\ t.acks = << C5_Expected(w, t.d.body) >>
                 /\ t.procs = (IF t.acks = <<"Ack">> THEN 1 ELSE 0)
                 /\ t.acks = <<"NackDrop">> => t.d.body \in dropped
                 /\ t.acks # <<"NackDrop">> => t.d.body \notin dropped

\* One task has returned from Process after its Ack while another has Nacked an
\* unregistered task with requeue.
C5_Witness ==
    \E s, r \in Slots :
        /\ tasks["w1"][s].pc \in {"sendErr", "release", "wgDone"}
        /\ tasks["w1"][s].acks = <<"Ack">>
        /\ tasks["w1"][s].procs = 1
        /\ tasks["w1"][r].pc \in {"release", "wgDone"}
        /\ tasks["w1"][r].acks = <<"NackRequeue">>

\* The task name a body carries ("" for a body that does not decode).
NameOf(body) == Unmarshal(body).sig.Name

\* Decodable bodies whose task has a handler on no worker.
Orphan(body) ==
    /\ Unmarshal(body).ok
    /\ \A w \in Workers : ~IsTaskRegistered(w, NameOf(body))

\* The copies of a body in the main queue or in the hands of a consumer that
\* has not acknowledged it yet.
Copies(body) ==
    Cardinality({ i \in DOMAIN queue : queue[i].body = body })
    + Cardinality({ w \in Workers : LoopAt(w, "dispatch") /\ loop[w].d.body = body })
    + Cardinality({ ws \in Workers \X Slots :
                      /\ tasks[ws[1]][ws[2]].pc = "consumeOne"
                      /\ tasks[ws[1]][ws[2]].d.body = body })

\* The safe half of C6: a message whose task has a handler nowhere is Nacked
\* with requeue by every consumer that receives it, consumeOne returning nil;
\* it is never dropped and never processed; and Process is called only on a
\* worker that registered the task.
C6_Cycles ==
    /\ \A w \in Workers : \A s \in Slots :
          (s \in Returned(w) /\ Orphan(tasks[w][s].d.body)) =>
              /\ tasks[w][s].acks = <<"NackRequeue">>
              /\ tasks[w][s].err = Nil
              /\ tasks[w][s].procs = 0
    /\ \A b \in WorkerBodies : Orphan(b) => b \notin dropped
    /\ \A p \in processed : IsTaskRegistered(p.w, NameOf(p.body))

\* ... and no step loses or duplicates it: it stays in the queue or in the
\* hands of a consumer.
C6_Conserved ==
    [][\A b \in WorkerBodies : Orphan(b) => Copies(b)' = Copies(b)]_vars

\* Worker w, still consuming, holds a message for which it has a handler and
\* has not called Process for it yet.
HoldsRegistered(w) ==
    /\ ~LoopAt(w, "done") /\ ~LoopAt(w, "wait")
    /\ \/ /\ LoopAt(w, "dispatch")
          /\ Unmarshal(loop[w].d.body).ok
          /\ IsTaskRegistered(w, NameOf(loop[w].d.body))
       \/ \E s \in Slots :
             /\ tasks[w][s].pc \in {"consumeOne", "acked"}
             /\ Unmarshal(tasks[w][s].d.body).ok
             /\ IsTaskRegistered(w, NameOf(tasks[w][s].d.body))

\* C6 (as claimed): a message with a handler nowhere is Nacked with requeue by
\* each consumer that receives it, with a nil error, and is never processed;
\* Process runs only on a worker that registered the task; and a message
\* delivered to a consuming worker that has the handler is eventually Acked and
\* processed there: while that worker holds it unprocessed, the worker's loop
\* or one of its goroutines can take a step.
C6_RegisteredWorkerProcesses ==
    /\ \A w \in Workers : \A s \in Slots :
          (s \in Returned(w) /\ Orphan(tasks[w][s].d.body)) =>
              /\ tasks[w][s].acks = <<"NackRequeue">>
              /\ tasks[w][s].err = Nil
              /\ tasks[w][s].procs = 0
    /\ \A p \in processed : IsTaskRegistered(p.w, NameOf(p.body))
    /\ \A w \in Workers : HoldsRegistered(w) => CanStep(w)

(***************************************************************************)
(* Properties of Publish and delay.                                        *)
(***************************************************************************)
\* C7 (as claimed): a call of Publish that returned nil has received an Ack
\* from the transport for its message, and a Nack for its message makes it
\* return the error that carries the delivery tag, on both paths.
C7_PublishConfirmed ==
    pub.pc = "returned" =>
        /\ pub.ret = Ret(Nil) => pub.confirmed = "ack"
        /\ confirms[pub.n] = "nack" => pub.ret = FailedDelivery(DeliveryTag)

\* C8 (as claimed): a call of Publish that no transport error cut short has,
\* for an ETA after the time it read, published once with the UUID as routing
\* key to the queue it declared under the UUID; and for a nil ETA or one not
\* after that time, published once with the signature's routing key and
\* declared no per-task queue.
C8_PathFromETA ==
    (pub.pc = "returned" /\ pub.ret.err \notin {"ConnectError", "PublishError"}) =>
        IF pub.sig.ETA # NoETA /\ pub.sig.ETA[1] > pub.now
        THEN /\ pub.log = << [exchange |-> Exchange, key |-> pub.sig.UUID] >>
             /\ pub.declared = {pub.sig.UUID}
        ELSE /\ pub.log = << [exchange |-> Exchange, key |-> pub.sig.RoutingKey] >>
             /\ pub.declared \cap PubUUIDs = {}

\* Everything a consume loop holds or has been handed: the delivery in the
\* loop's hand and those of its goroutines.
Held(w) ==
    { tasks[w][s].d : s \in { t \in Slots : tasks[w][t].pc # "free" } }
        \cup (IF LoopAt(w, "dispatch") THEN {loop[w].d} ELSE {})

\* C9: a signature published with a future ETA waits in the queue named by its
\* UUID, declared with message-ttl = the whole milliseconds from now to the
\* ETA and expires = that + 3000, dead-lettering to the main exchange and
\* binding key; it reaches the main queue and a consumer only through that
\* queue, not before the TTL has elapsed since its wait started, which is less
\* than a millisecond before the ETA; and a later Publish of the UUID starts
\* the wait of the messages in the queue again.
C9_DelayFidelity ==
    /\ \A u \in PubUUIDs :
          tq[u].declared =>
             /\ tq[u].ttl >= 1
             /\ tq[u].ttl * TicksPerMs <= tq[u].eta - tq[u].now
             /\ tq[u].eta - tq[u].now < (tq[u].ttl + 1) * TicksPerMs
             /\ tq[u].expires = tq[u].ttl + 3000
             /\ tq[u].dlx = Exchange /\ tq[u].dlk = BindingKey
             /\ tq[u].at >= tq[u].now
             /\ \A i \in DOMAIN tq[u].msgs :
                   /\ tq[u].msgs[i].since >= tq[u].at
                   /\ Unmarshal(tq[u].msgs[i].body).sig.UUID = u
    /\ \A u \in PubUUIDs : ~tq[u].declared => tq[u].msgs = << >>
    /\ \A i \in DOMAIN queue : queue[i].delay # NoDelay
    /\ \A w \in Workers : \A d \in Held(w) : d.delay # NoDelay
    /\ \A h \in handed :
          /\ h.at >= h.delay.since + h.delay.ttl * TicksPerMs
          /\ h.at + TicksPerMs > h.delay.eta
          /\ h.delay.since >= h.delay.born

\* A consumer has been handed a delayed message whose wait was started again
\* by a second Publish of its UUID.
C9_Witness ==
    \E h \in handed : h.delay.since > h.delay.born

(***************************************************************************)
(* Properties of AsyncResult.                                              *)
(***************************************************************************)
\* The typed value a stored result stands for.
TypedValue(r) == [kind |-> r.Type, v |-> r.Value]

\* Touch returned every stored result of ts, in order, and no error.
ReturnedResults(t) ==
    /\ t.err.isNil
    /\ ~t.results.isNil
    /\ Len(t.results.vals) = Len(t.ts.Results)
    /\ \A i \in DOMAIN t.ts.Results : t.results.vals[i] = TypedValue(t.ts.Results[i])

\* Touch returned (nil, error with the stored Error as text).
ReturnedFailure(t) ==
    /\ t.results.isNil
    /\ ~t.err.isNil
    /\ t.err.text = t.ts.Error

\* Touch without a backend: an error, and no backend operation.
ReturnedNotConfigured(t) ==
    /\ t.results.isNil
    /\ ~t.err.isNil
    /\ t.ops = << >>

\* C10 (as claimed): with a backend, Touch returns (nil, nil) exactly when the
\* state the handle holds after the fetch is not terminal, (results, nil) with
\* one value per stored result in order when it is SUCCESS, and (nil, error
\* with the stored Error as text) when it is FAILURE; without a backend it
\* returns an error and reads no state.
C10_TouchReturns ==
    \A u \in TaskUUIDs :
        LET t == touched[u]
        IN t.n > 0 =>
             IF backend = "nil" THEN ReturnedNotConfigured(t)
             ELSE /\ (t.results.isNil /\ t.err.isNil) <=> ~IsCompleted(t.ts)
                  /\ IsSuccess(t.ts) => ReturnedResults(t)
                  /\ IsFailure(t.ts) => ReturnedFailure(t)

\* The stored results that tasks.ReflectValue does not convert.
Unconverted(results) ==
    { i \in DOMAIN results : ~ReflectValue(results[i].Type, results[i].Value).err.isNil }

\* C10 (amended): as claimed, but in SUCCESS Touch returns the results only
\* when every stored result converts; otherwise it returns (nil, the error of
\* the first stored result that does not convert).
C10_TouchReturnsConverted ==
    \A u \in TaskUUIDs :
        LET t == touched[u]
            bad == Unconverted(t.ts.Results)
        IN t.n > 0 =>
             IF backend = "nil" THEN ReturnedNotConfigured(t)
             ELSE /\ (t.results.isNil /\ t.err.isNil) <=> ~IsCompleted(t.ts)
                  /\ (IsSuccess(t.ts) /\ bad = {}) => ReturnedResults(t)
                  /\ (IsSuccess(t.ts) /\ bad # {}) =>
                        /\ t.results.isNil
                        /\ \E i \in bad :
                              /\ \A j \in bad : i <= j
                              /\ t.err = ReflectValue(t.ts.Results[i].Type,
                                                      t.ts.Results[i].Value).err
                  /\ IsFailure(t.ts) => ReturnedFailure(t)

\* Touch has found t1 in SUCCESS with two stored results of which the second
\* does not convert, and has returned the conversion error and no results.
C10_Witness ==
    LET t == touched["t1"]
    IN /\ backend # "nil"
       /\ t.n > 0
       /\ IsSuccess(t.ts)
       /\ Len(t.ts.Results) = MaxResults
       /\ Unconverted(t.ts.Results) = {MaxResults}
       /\ t.results.isNil
       /\ ~t.err.isNil

\* The backend operations of a call that change what the backend holds.
MutatingOps(ops) == { i \in DOMAIN ops : ops[i] # "GetState" }

\* C11 (as claimed): Touch calls PurgeState exactly when the backend is the
\* AMQP backend and the state the handle holds is SUCCESS; with another
\* backend, or in a non-terminal or FAILURE state, it performs no mutating
\* backend operation.
C11_PurgeOnlyOnSuccess ==
    \A u \in TaskUUIDs :
        LET t == touched[u]
        IN t.n > 0 =>
             IF backend = "amqp" /\ IsSuccess(t.ts)
             THEN \E i \in DOMAIN t.ops : t.ops[i] = "PurgeState"
             ELSE MutatingOps(t.ops) = {}

\* The backend holds a terminal state for u.
StoredTerminal(u) == store[u].status = "stored" /\ IsCompleted(store[u].ts)

\* The backend holds no terminal state for u and never has.
StoredNonTerminal(u) ==
    \/ store[u].status = "none"
    \/ store[u].status = "stored" /\ ~IsCompleted(store[u].ts)

\* The call in progress is op on the handle of u, with a backend configured.
Calling(op, u) == call.op = op /\ call.u = u /\ backend # "nil"

\* The call has returned what Touch returns for the state the handle holds.
ReturnedTouchOutcome(u) ==
    /\ call.results = TouchOutcome(taskState[u]).results
    /\ call.err = TouchOutcome(taskState[u]).err

\* C12: with a backend, Get has returned only if its handle holds a terminal
\* state, and it has returned what Touch returns for that state; while the
\* backend holds no terminal state for the task Get has not returned; and a
\* poll of Get that finds a terminal state in the backend returns (so Get
\* returns once the backend keeps reporting one: a sleeping Get always wakes
\* and polls again).
C12_GetReturnsOnTerminal ==
    /\ [](\A u \in TaskUUIDs :
            (Calling("Get", u) /\ call.pc = "returned") =>
                /\ IsCompleted(taskState[u])
                /\ ReturnedTouchOutcome(u)
                /\ ~StoredNonTerminal(u))
    /\ [](\A u \in TaskUUIDs :
            /\ (Calling("Get", u) /\ call.pc = "sleep") => ENABLED GetSleep
            /\ (Calling("Get", u) /\ call.pc = "touch") => ENABLED GetTouch(u, TRUE))
    /\ [][\A u \in TaskUUIDs :
            (Calling("Get", u) /\ StoredTerminal(u) /\ GetTouch(u, TRUE))
                => call'.pc = "returned"]_vars

\* Get has returned the results of a task in SUCCESS after it had polled and
\* slept while the task was pending.
C12_Witness ==
    /\ Calling("Get", "t1")
    /\ call.pc = "returned"
    /\ call.polls >= 2
    /\ IsSuccess(taskState["t1"])
    /\ ~call.results.isNil
    /\ Len(call.results.vals) = 1

TimeoutReached == NewError("Timeout reached")

\* What C13 says of the value GetWithTimeout returns and of its progress: the
\* timeout error only after the timer has fired; any other return is the Touch
\* outcome of a terminal state the handle holds; once the timer has fired the
\* next select returns the timeout error, and the call can always reach that
\* select (it polls without blocking and wakes from its sleep); a poll that
\* reads a terminal state from the backend returns its outcome.
GetWithTimeoutReturns ==
    /\ [](\A u \in TaskUUIDs :
            (Calling("GetWithTimeout", u) /\ call.pc = "returned") =>
                IF call.err = TimeoutReached
                THEN call.timer = "fired" /\ call.results.isNil
                ELSE IsCompleted(taskState[u]) /\ ReturnedTouchOutcome(u))
    /\ [](\A u \in TaskUUIDs :
            /\ (Calling("GetWithTimeout", u) /\ call.pc = "select")
                  => ENABLED GetWithTimeoutSelect
            /\ (Calling("GetWithTimeout", u) /\ call.pc = "sleep")
                  => ENABLED GetWithTimeoutSleep
            /\ (Calling("GetWithTimeout", u) /\ call.pc = "touch")
                  => ENABLED GetWithTimeoutTouch(u, TRUE))
    /\ [][(call.timer = "fired" /\ GetWithTimeoutSelect)
             => (call'.pc = "returned" /\ call'.err = TimeoutReached)]_vars
    /\ [][\A u \in TaskUUIDs :
            (Calling("GetWithTimeout", u) /\ StoredTerminal(u)
               /\ GetWithTimeoutTouch(u, TRUE))
                => (call'.pc = "returned" /\ call'.err # TimeoutReached)]_vars

\* A step of the GetWithTimeout call in progress.
GetWithTimeoutStep ==
    call.op = "GetWithTimeout" /\ call.pc # "returned" /\ call' # call

\* C13 (as claimed): GetWithTimeout returns "Timeout reached" only after its
\* timer has fired and does return it when the task stays non-terminal; a
\* terminal state observed before that is returned as Get returns it; and no
\* step of the call changes what the backend holds for a task.
C13_TimeoutCancelsWait ==
    /\ GetWithTimeoutReturns
    /\ [][GetWithTimeoutStep => store' = store]_vars

\* C13 (amended): as claimed, but for the backend: the call sets no task
\* state; the one change it makes is the purge of the task's record by Touch,
\* with the AMQP backend, in the step that observes a terminal state and
\* returns its outcome.  A call that returns the timeout error has changed
\* nothing.
C13_TimeoutCancelsWaitNotPurge ==
    /\ GetWithTimeoutReturns
    /\ [][\A u \in TaskUUIDs :
            (GetWithTimeoutStep /\ call.u = u /\ store' # store) =>
                /\ backend = "amqp"
                /\ IsCompleted(taskState'[u])
                /\ call'.pc = "returned" /\ call'.err # TimeoutReached
                /\ store' = [store EXCEPT ![u] = [status |-> "purged", ts |-> NewTaskState]]]_vars

\* GetWithTimeout has polled a task that stayed non-terminal, slept, and
\* returned the timeout error after the timer fired.
C13_Witness ==
    /\ Calling("GetWithTimeout", "t1")
    /\ call.pc = "returned"
    /\ call.err = TimeoutReached
    /\ call.polls >= 1
    /\ store["t1"].status = "stored"
    /\ ~IsCompleted(taskState["t1"])

(***************************************************************************)
(* Properties of ChainAsyncResult and ChordAsyncResult.                    *)
(***************************************************************************)
\* The handle of u has been queried (Touch was called on it).
Queried(u) == touched[u].n > 0

\* The call has returned every stored result of u, in order, and no error.
CallReturnedResultsOf(u) ==
    /\ call.err.isNil
    /\ ~call.results.isNil
    /\ Len(call.results.vals) = Len(taskState[u].Results)
    /\ \A i \in DOMAIN taskState[u].Results :
          call.results.vals[i] = TypedValue(taskState[u].Results[i])

\* The call has returned (nil, error with the Error stored for u as text).
CallReturnedFailureOf(u) ==
    /\ call.results.isNil
    /\ ~call.err.isNil
    /\ call.err.text = taskState[u].Error

\* Members are queried in chain order: a member only after its predecessor
\* has been observed in SUCCESS.
ChainOrder ==
    \A i \in DOMAIN Chain :
        (i > 1 /\ Queried(Chain[i])) => IsSuccess(taskState[Chain[i - 1]])

\* The members observed in FAILURE.
FailedMembers(members) ==
    { i \in DOMAIN members : IsFailure(taskState[members[i]]) }

First(S) == CHOOSE i \in S : \A j \in S : i <= j

\* C14 (as claimed): ChainAsyncResult.Get queries member i+1 only after member
\* i was observed in SUCCESS; when all members were observed in SUCCESS it
\* returns the results of the last member; on the first member observed in
\* FAILURE it returns (nil, that member's error) and has queried no later
\* member.
C14_ChainInOrder ==
    /\ ChainOrder
    /\ (call.op = "ChainGet" /\ call.pc = "returned" /\ backend # "nil") =>
          /\ (\A i \in DOMAIN Chain : IsSuccess(taskState[Chain[i]]))
                => CallReturnedResultsOf(Chain[Len(Chain)])
          /\ FailedMembers(Chain) # {} =>
                /\ CallReturnedFailureOf(Chain[First(FailedMembers(Chain))])
                /\ \A j \in DOMAIN Chain :
                      j > First(FailedMembers(Chain)) => ~Queried(Chain[j])

\* The members whose Touch returns an error: observed in FAILURE, or in
\* SUCCESS with a stored result that does not convert.
ErrorMembers(members) ==
    { i \in DOMAIN members :
        \/ IsFailure(taskState[members[i]])
        \/ IsSuccess(taskState[members[i]])
             /\ Unconverted(taskState[members[i]].Results) # {} }

\* The call has returned (nil, the error Touch returns for u).
CallReturnedErrorOf(u) ==
    /\ call.results.isNil
    /\ IF IsFailure(taskState[u]) THEN CallReturnedFailureOf(u)
       ELSE \E r \in Unconverted(taskState[u].Results) :
               call.err = ReflectValue(taskState[u].Results[r].Type,
                                       taskState[u].Results[r].Value).err

\* C14 (amended): as claimed, with the conversion of stored results: when all
\* members were observed in SUCCESS and their results convert, Get returns the
\* results of the last member; on the first member observed in FAILURE, or in
\* SUCCESS with a result that does not convert, it returns (nil, that
\* member's error) and has queried no later member.
C14_ChainInOrderConverted ==
    /\ ChainOrder
    /\ (call.op = "ChainGet" /\ call.pc = "returned" /\ backend # "nil") =>
          IF ErrorMembers(Chain) = {}
          THEN /\ \A i \in DOMAIN Chain : IsSuccess(taskState[Chain[i]])
               /\ CallReturnedResultsOf(Chain[Len(Chain)])
          ELSE /\ CallReturnedErrorOf(Chain[First(ErrorMembers(Chain))])
               /\ \A j \in DOMAIN Chain :
                     /\ j > First(ErrorMembers(Chain)) => ~Queried(Chain[j])
                     /\ j < First(ErrorMembers(Chain)) => IsSuccess(taskState[Chain[j]])

\* Get on the chain has seen every member in SUCCESS and returned the one
\* result of the last member, which differs from the first's.
C14_Witness ==
    /\ call.op = "ChainGet" /\ call.pc = "returned" /\ backend # "nil"
    /\ call.polls >= Len(Chain)
    /\ \A i \in DOMAIN Chain : IsSuccess(taskState[Chain[i]])
    /\ taskState[Chain[1]].Results # taskState[Chain[Len(Chain)]].Results
    /\ Len(taskState[Chain[1]].Results) = 1
    /\ CallReturnedResultsOf(Chain[Len(Chain)])
    /\ Len(call.results.vals) = 1

\* The callback is queried only after every group member has been observed in
\* SUCCESS.
CallbackAfterGroup ==
    Queried(Callback) => \A i \in DOMAIN Group : IsSuccess(taskState[Group[i]])

\* C15 (as claimed): ChordAsyncResult.Get queries the callback only after
\* every group member was observed in SUCCESS; with every member observed in
\* SUCCESS it returns the callback's results or the callback's error; with a
\* member observed in FAILURE it returns that member's error and has not
\* queried the callback.
C15_ChordAwaitsGroup ==
    /\ CallbackAfterGroup
    /\ (call.op = "ChordGet" /\ call.pc = "returned" /\ backend # "nil") =>
          /\ (\A i \in DOMAIN Group : IsSuccess(taskState[Group[i]])) =>
                \/ IsSuccess(taskState[Callback]) /\ CallReturnedResultsOf(Callback)
                \/ IsFailure(taskState[Callback]) /\ CallReturnedFailureOf(Callback)
          /\ FailedMembers(Group) # {} =>
                /\ CallReturnedFailureOf(Group[First(FailedMembers(Group))])
                /\ ~Queried(Callback)

\* C15 (amended): as claimed, with the conversion of stored results: a group
\* member in SUCCESS with a result that does not convert ends Get like one in
\* FAILURE, with that member's error and the callback not queried; otherwise
\* Get returns what Touch returns for the callback's terminal state.
C15_ChordAwaitsGroupConverted ==
    /\ CallbackAfterGroup
    /\ (call.op = "ChordGet" /\ call.pc = "returned" /\ backend # "nil") =>
          IF ErrorMembers(Group) # {}
          THEN /\ CallReturnedErrorOf(Group[First(ErrorMembers(Group))])
               /\ ~Queried(Callback)
               /\ \A j \in DOMAIN Group :
                     /\ j > First(ErrorMembers(Group)) => ~Queried(Group[j])
                     /\ j < First(ErrorMembers(Group)) => IsSuccess(taskState[Group[j]])
          ELSE /\ \A i \in DOMAIN Group : IsSuccess(taskState[Group[i]])
               /\ IsCompleted(taskState[Callback])
               /\ IF ErrorMembers(<< Callback >>) = {}
                  THEN CallReturnedResultsOf(Callback)
                  ELSE CallReturnedErrorOf(Callback)

\* Get on the chord has seen both group members and the callback in SUCCESS
\* and returned the callback's one result.
C15_Witness ==
    /\ call.op = "ChordGet" /\ call.pc = "returned" /\ backend # "nil"
    /\ \A i \in DOMAIN Group : IsSuccess(taskState[Group[i]])
    /\ taskState[Group[1]].Results # taskState[Callback].Results
    /\ IsSuccess(taskState[Callback])
    /\ CallReturnedResultsOf(Callback)
    /\ Len(call.results.vals) = 1

\* C16 (as claimed): when ChainAsyncResult.GetWithTimeout returns before the
\* deadline with a member observed in FAILURE, it returns a non-nil error, the
\* error of that member, and not (nil, nil).
C16_ChainTimeoutSurfacesError ==
    (call.op = "ChainGetWithTimeout" /\ call.pc = "returned" /\ backend # "nil"
       /\ FailedMembers(Chain) # {} /\ call.err # TimeoutError) =>
        /\ ~(call.results.isNil /\ call.err.isNil)
        /\ ~call.err.isNil
        /\ \E i \in FailedMembers(Chain) : CallReturnedFailureOf(Chain[i])

\* C17 (as claimed): when backend.GetState returned an error to the handle's
\* last Touch although the backend holds a state for the task (the backend
\* was unreachable), that Touch returned a non-nil error, and a Get that made
\* the call has returned instead of sleeping to poll again.
C17_BackendErrorSurfaced ==
    \A u \in TaskUUIDs :
        (touched[u].n > 0 /\ touched[u].getErr /\ store[u].status = "stored") =>
            /\ ~touched[u].err.isNil
            /\ Calling("Get", u) => call.pc # "sleep"

C19_ChordTimeoutLikeGet ==
    (call.op = "ChordGetWithTimeout" /\ call.pc = "returned" /\ backend # "nil"
       /\ call.err # TimeoutError) =>
        /\ FailedMembers(ChordHandles) # {} => (call.results.isNil /\ ~call.err.isNil)
        /\ ((\A i \in DOMAIN ChordHandles : IsSuccess(taskState[ChordHandles[i]]))
              /\ ErrorMembers(ChordHandles) = {}) => CallReturnedResultsOf(Callback)

\* C20: with concurrency = 0 the pool is bypassed: it never holds a token and
\* none is put in, taken or given back; a received delivery is dispatched
\* without waiting (the loop holding a delivery can always start its
\* goroutine); the WaitGroup counts every goroutine that has not finished, and
\* consume has returned only when all of them have.
C20_PoolBypassed ==
    \A w \in Workers :
        conc[w] = 0 =>
            /\ pool[w] = 0
            /\ filled[w] = 0
            /\ LoopAt(w, "dispatch") => ENABLED Dispatch(w)
            /\ wg[w] = Cardinality(Slots \ FreeSlots(w))
            /\ LoopAt(w, "done") => (wg[w] = 0 /\ FreeSlots(w) = Slots)

\* With concurrency 0 every delivery of the queue is inside consumeOne at the
\* same time: MaxQueue tasks in flight, nothing left to receive.
C20_Witness ==
    /\ conc["w1"] = 0
    /\ Cardinality(InFlight("w1")) = MaxQueue
    /\ queue = << >>
    /\ wg["w1"] = MaxQueue
=============================================================================
